---- MODULE Spec2Model ----
(***************************************************************************)
(* A model of tag-audit.py: the front-matter extractor, the normalisation  *)
(* of tag/category fields, the aggregation loop of collect(), the          *)
(* filter/sort engine and the report driver main().                        *)
(*                                                                         *)
(* A Python str is a tuple of one-character strings, so that strip(),      *)
(* lower() and the code-point order of sorted() are computed, not assumed. *)
(* A file path is the file's index in the walk (paths of one walk are      *)
(* distinct, and sorted() on paths is the order of the indices).           *)
(***************************************************************************)
EXTENDS Integers, Sequences, FiniteSets, TLC

\* ---------------------------------------------------------------- bounds
\* Most files one run scans.
NFiles == 2
\* Largest --min-count and --top drawn for a run of the program.
MaxArg == 2
\* Largest count of a name in a count mapping handed to sort_and_filter alone.
MaxCount == 2
\* Longest list handed to coerce_list alone.
MaxLen == 2

\* ------------------------------------------------------------ Python str
\* Code point of a character (Python compares str by code point).
Ord(c) ==
  CASE c = " " -> 32
    [] c = "B" -> 66
    [] c = "G" -> 71
    [] c = "O" -> 79
    [] c = "R" -> 82
    [] c = "a" -> 97
    [] c = "b" -> 98
    [] c = "g" -> 103
    [] c = "o" -> 111
    [] c = "r" -> 114
    [] c = "x" -> 120
    [] c = "y" -> 121

\* str.lower() on one character.
LowerChar(c) ==
  CASE c = "B" -> "b"
    [] c = "G" -> "g"
    [] c = "O" -> "o"
    [] c = "R" -> "r"
    [] OTHER -> c

\* str.lower()
lower(s) == [i \in 1..Len(s) |-> LowerChar(s[i])]

IsSpace(c) == c = " "

RECURSIVE LStrip(_)
LStrip(s) ==
  IF s = <<>> THEN s
  ELSE IF IsSpace(Head(s)) THEN LStrip(Tail(s)) ELSE s

RECURSIVE RStrip(_)
RStrip(s) ==
  IF s = <<>> THEN s
  ELSE IF IsSpace(s[Len(s)]) THEN RStrip(SubSeq(s, 1, Len(s) - 1)) ELSE s

\* str.strip()
strip(s) == RStrip(LStrip(s))

\* a < b on str: lexicographic by code point.
RECURSIVE StrLess(_, _)
StrLess(a, b) ==
  IF a = <<>> THEN b # <<>>
  ELSE IF b = <<>> THEN FALSE
  ELSE IF Ord(Head(a)) # Ord(Head(b)) THEN Ord(Head(a)) < Ord(Head(b))
  ELSE StrLess(Tail(a), Tail(b))

\* ---------------------------------------------------------- YAML values
\* A value yaml.safe_load can produce: kind says which Python type it is.
Null == [kind |-> "null", s |-> <<>>, items |-> <<>>, n |-> 0]
Str(s) == [kind |-> "str", s |-> s, items |-> <<>>, n |-> 0]
Num(n) == [kind |-> "num", s |-> <<>>, items |-> <<>>, n |-> n]
Bool(b) == [kind |-> "bool", s |-> <<>>, items |-> <<>>, n |-> IF b THEN 1 ELSE 0]
List(items) == [kind |-> "list", s |-> <<>>, items |-> items, n |-> 0]
\* A mapping used as a field value: only its number of keys matters.
MapOf(n) == [kind |-> "map", s |-> <<>>, items |-> <<>>, n |-> n]

\* Python's `not value`.
Falsy(v) ==
  CASE v.kind = "null" -> TRUE
    [] v.kind = "bool" -> v.n = 0
    [] v.kind = "num" -> v.n = 0
    [] v.kind = "str" -> v.s = <<>>
    [] v.kind = "list" -> v.items = <<>>
    [] v.kind = "map" -> v.n = 0

\* The loop of coerce_list over a list value.
RECURSIVE CoerceItems(_)
CoerceItems(items) ==
  IF items = <<>> THEN <<>>
  ELSE LET v == Head(items)
           s == lower(strip(v.s))
       IN  (IF v.kind = "str" /\ s # <<>> THEN <<s>> ELSE <<>>)
             \o CoerceItems(Tail(items))

\* A mutation of coerce_list: the names are trimmed but keep their case.
coerce_list_keepcase(value) ==
  IF Falsy(value) THEN <<>>
  ELSE IF value.kind = "str"
    THEN (IF strip(value.s) # <<>> THEN <<strip(value.s)>> ELSE <<>>)
  ELSE IF value.kind = "list"
    THEN SelectSeq([i \in 1..Len(value.items) |->
                      IF value.items[i].kind = "str"
                        THEN strip(value.items[i].s) ELSE <<>>],
                   LAMBDA s : s # <<>>)
  ELSE <<>>

coerce_list(value) ==
  IF Falsy(value) THEN <<>>
  ELSE IF value.kind = "str"
    THEN LET s == lower(strip(value.s)) IN IF s # <<>> THEN <<s>> ELSE <<>>
  ELSE IF value.kind = "list" THEN CoerceItems(value.items)
  ELSE <<>>

\* The Python list of str that coerce_list returns, as a value again.
AsValue(names) == List([i \in 1..Len(names) |-> Str(names[i])])

\* ------------------------------------------------------------- documents
\* A key the mapping does not have.
Absent == [kind |-> "absent", s |-> <<>>, items |-> <<>>, n |-> 0]

\* A YAML document that is a mapping: its tags, categories and draft fields
\* (Absent when the key is missing) and the number of its other keys.
Mapping(other, t, c, d) ==
  [kind |-> "map", s |-> <<>>, items |-> <<>>,
   n |-> other + Cardinality({k \in {"tags", "categories", "draft"} :
            (CASE k = "tags" -> t [] k = "categories" -> c [] OTHER -> d)
              # Absent}),
   tags |-> t, categories |-> c, draft |-> d]

\* A YAML document that is not a mapping (a scalar, a list, null).
Doc(v) ==
  [kind |-> v.kind, s |-> v.s, items |-> v.items, n |-> v.n,
   tags |-> Absent, categories |-> Absent, draft |-> Absent]

\* {}
EmptyDict == Mapping(0, Absent, Absent, Absent)

\* dict.get(key, default)
Get(data, key, default) == IF data[key] = Absent THEN default ELSE data[key]

\* ----------------------------------------------------------------- files
\* A file: whether open()/readlines() succeeds, its lines (each line stands
\* for its stripped content: the marker "---" or anything else) and what
\* yaml.safe_load makes of the text between the markers.
File(readable, lines, ok, data) ==
  [readable |-> readable, lines |-> lines, load |-> [ok |-> ok, data |-> data]]

G_o == <<"G", "o">>
g_o == <<"g", "o">>
go_sp == <<"g", "o", " ">>
R_ == <<"R">>
r_ == <<"r">>
x_ == <<"x">>
B_ == <<"B">>
b_ == <<"b">>
sp_ == <<" ">>

Block == <<"---", "yaml", "---", "text">>

Unreadable == File(FALSE, <<>>, FALSE, Doc(Null))
NoMarker == File(TRUE, <<"text", "---">>, FALSE, Doc(Null))
Unclosed == File(TRUE, <<"---", "yaml">>, TRUE, Mapping(0, Str(g_o), Absent, Absent))
EmptyBlock == File(TRUE, <<"---", "---", "text">>, TRUE, Doc(Null))
BadYaml == File(TRUE, Block, FALSE, Doc(Null))
ListDoc == File(TRUE, Block, TRUE, Doc(List(<<Str(g_o)>>)))
StrDoc == File(TRUE, Block, TRUE, Doc(Str(g_o)))
\* tags: [Go, "go ", R]   categories: b
M1 == File(TRUE, Block, TRUE,
           Mapping(0, List(<<Str(G_o), Str(go_sp), Str(R_)>>), Str(b_), Absent))
\* tags: go   categories: [B, " ", 7]   draft: true
M2 == File(TRUE, Block, TRUE,
           Mapping(0, Str(g_o), List(<<Str(B_), Str(sp_), Num(7)>>), Bool(TRUE)))
\* title: ...   tags: [r, x]   categories: 5   draft: false
M3 == File(TRUE, Block, TRUE,
           Mapping(1, List(<<Str(r_), Str(x_)>>), Num(5), Bool(FALSE)))

FileInputs ==
  {Unreadable, NoMarker, Unclosed, EmptyBlock, BadYaml, ListDoc, StrDoc,
   M1, M2, M3}

\* ------------------------------------------------- front-matter extractor
\* (start_idx, end_idx), 0-based as in the code, or (-1, -1).
is_front_matter_yaml(lines) ==
  IF lines = <<>> \/ lines[1] # "---" THEN <<-1, -1>>
  ELSE LET closing == {idx \in 1..(Len(lines) - 1) : lines[idx + 1] = "---"}
       IN  IF closing = {} THEN <<-1, -1>>
           ELSE <<0, CHOOSE idx \in closing : \A j \in closing : idx <= j>>

\* yaml.safe_load of lines[s+1:e]: empty text loads as null.
safe_load(file, s, e) ==
  IF e <= s + 1 THEN [ok |-> TRUE, data |-> Doc(Null)] ELSE file.load

\* What read_front_matter returns: none (Python's None) or the data, and the
\* warning it printed to stderr ("" when none).
read_front_matter(file) ==
  IF ~file.readable
    THEN [none |-> TRUE, data |-> EmptyDict, warn |-> "read"]
  ELSE LET se == is_front_matter_yaml(file.lines)
           l == safe_load(file, se[1], se[2])
       IN  IF se[1] = -1
             THEN [none |-> FALSE, data |-> EmptyDict, warn |-> ""]
           ELSE IF ~l.ok
             THEN [none |-> TRUE, data |-> EmptyDict, warn |-> "parse"]
           ELSE [none |-> FALSE,
                 data |-> IF Falsy(l.data) THEN EmptyDict ELSE l.data,
                 warn |-> ""]

\* ------------------------------------------------------------- aggregator
\* A mutation of CounterUpdate: a name listed twice by a file counts once.
CounterUpdate_once(counter, names) ==
  LET used == {names[i] : i \in 1..Len(names)}
  IN  [k \in DOMAIN counter \cup used |->
         (IF k \in DOMAIN counter THEN counter[k] ELSE 0)
           + (IF k \in used THEN 1 ELSE 0)]

\* Counter.update(names): one increment per element.
RECURSIVE CounterUpdate(_, _)
CounterUpdate(counter, names) ==
  IF names = <<>> THEN counter
  ELSE LET k == Head(names)
           c == IF k \in DOMAIN counter
                  THEN [counter EXCEPT ![k] = @ + 1]
                  ELSE (k :> 1) @@ counter
       IN  CounterUpdate(c, Tail(names))

\* A mutation of AppendPath: the loop stops after the first name.
AppendPath_first(mapping, names, path) ==
  IF names = <<>> THEN mapping
  ELSE IF Head(names) \in DOMAIN mapping
    THEN [mapping EXCEPT ![Head(names)] = Append(@, path)]
  ELSE (Head(names) :> <<path>>) @@ mapping

\* for t in names: mapping[t].append(path)   (mapping is a defaultdict(list))
RECURSIVE AppendPath(_, _, _)
AppendPath(mapping, names, path) ==
  IF names = <<>> THEN mapping
  ELSE LET k == Head(names)
           m == IF k \in DOMAIN mapping
                  THEN [mapping EXCEPT ![k] = Append(@, path)]
                  ELSE (k :> <<path>>) @@ mapping
       IN  AppendPath(m, Tail(names), path)

\* bool(value)
Truthy(v) == ~Falsy(v)

\* ------------------------------------------------------ filter/sort engine
\* The sort keys of sort_and_filter on rows (name, count): kv[0] in "alpha"
\* mode, (-kv[1], kv[0]) otherwise.
KeyLess(mode, a, b) ==
  IF mode = "alpha" THEN StrLess(a[1], b[1])
  ELSE (-a[2] < -b[2]) \/ (a[2] = b[2] /\ StrLess(a[1], b[1]))

\* list.sort(key=...) of the rows of a dict: the names are distinct, so the
\* order of the result does not depend on the dict's iteration order.
RECURSIVE SortRows(_, _)
SortRows(rows, mode) ==
  IF rows = {} THEN <<>>
  ELSE LET first == CHOOSE r \in rows :
                      \A q \in rows \ {r} : KeyLess(mode, r, q)
       IN  <<first>> \o SortRows(rows \ {first}, mode)

\* items[:top]
Slice(items, top) ==
  SubSeq(items, 1, IF top < Len(items) THEN top ELSE Len(items))

\* A mutation of sort_and_filter: the threshold is exclusive.
sort_and_filter_gt(counter, mode, min_count, top) ==
  LET items == SortRows({<<k, counter[k]>> : k \in
                           {k \in DOMAIN counter : counter[k] > min_count}},
                        mode)
  IN  IF top > 0 THEN Slice(items, top) ELSE items

sort_and_filter(counter, mode, min_count, top) ==
  LET items == SortRows({<<k, counter[k]>> : k \in
                           {k \in DOMAIN counter : counter[k] >= min_count}},
                        mode)
  IN  IF top > 0 THEN Slice(items, top) ELSE items

\* sorted(paths): a path is its index in the walk.
RECURSIVE SortPaths(_)
SortPaths(S) ==
  IF S = {} THEN <<>>
  ELSE LET m == CHOOSE p \in S : \A q \in S : p <= q
       IN  <<m>> \o SortPaths(S \ {m})

\* sorted(list of paths), duplicates kept.
RECURSIVE SortedList(_)
SortedList(l) ==
  IF l = <<>> THEN <<>>
  ELSE LET m == CHOOSE i \in 1..Len(l) : \A j \in 1..Len(l) : l[i] <= l[j]
       IN  <<l[m]>> \o SortedList(SubSeq(l, 1, m - 1) \o SubSeq(l, m + 1, Len(l)))

\* -------------------------------------------------------------- renderers
\* What print_per_file prints: one entry per file of file_usage, by path.
per_file_body(usage) ==
  LET paths == SortPaths(DOMAIN usage)
  IN  [i \in 1..Len(paths) |->
         [path |-> paths[i], tags |-> usage[paths[i]].tags,
          categories |-> usage[paths[i]].categories]]

\* A mutation of single_rows: a name is a singleton when one file uses it,
\* however often that file lists it.
single_rows_distinct(mapping) ==
  SortRows({<<t, 1>> : t \in {t \in DOMAIN mapping :
              Cardinality({mapping[t][i] : i \in 1..Len(mapping[t])}) = 1}},
           "alpha")

\* main, lines 386-389: the rows (name, 1) of the names with one file.
single_rows(mapping) ==
  SortRows({<<t, 1>> : t \in {t \in DOMAIN mapping : Len(mapping[t]) = 1}},
           "alpha")

\* The render_mapping_* functions: per key, in the order given, the sorted
\* files of mapping.get(key, []).
render_mapping(ordered_keys, mapping) ==
  [i \in 1..Len(ordered_keys) |->
     [key |-> ordered_keys[i],
      files |-> IF ordered_keys[i] \in DOMAIN mapping
                  THEN SortedList(mapping[ordered_keys[i]]) ELSE <<>>]]

\* A mutation of ordered_keys_from: the --top limit is not passed on.
ordered_keys_notop(counter, mode, min_count, top) ==
  LET rows == sort_and_filter(counter, mode, min_count, 0)
  IN  [i \in 1..Len(rows) |-> rows[i][1]]

\* main.ordered_keys_from(counter), with the args it closes over.
ordered_keys_from(counter, mode, min_count, top) ==
  LET rows == sort_and_filter(counter, mode, min_count, top)
  IN  [i \in 1..Len(rows) |-> rows[i][1]]

\* One printed section: which one, in which format, and its content.
Section(name, fmt, body) == [section |-> name, fmt |-> fmt, body |-> body]

\* ------------------------------------------------------------------ state
VARIABLES
  fs,            \* the files the walk yields, in order: path i is fs[i]
  args,          \* the parsed command line
  isatty,        \* sys.stdout.isatty()
  pc,            \* where main() is
  idx,           \* collect: the path the loop reads next
  tags_counter,  \* collect: name -> count
  cats_counter,
  file_usage,    \* collect: path -> its tags and categories
  tag_to_files,  \* collect: name -> list of paths
  cat_to_files,
  out,           \* the sections printed on stdout, in order
  err,           \* the warnings printed on stderr, in order
  call,          \* a direct call of a pure function: its arguments
  ret            \* ... and what it returned

vars ==
  <<fs, args, isatty, pc, idx, tags_counter, cats_counter, file_usage,
    tag_to_files, cat_to_files, out, err, call, ret>>

collected ==
  <<tags_counter, cats_counter, file_usage, tag_to_files, cat_to_files>>

Formats == {"text", "markdown", "csv", "json"}
Modes == {"count", "alpha"}

NoCall == [fn |-> "none"]
NoRet == [fn |-> "none"]

\* The state main() starts collect() in, for a command line of Args, a walk
\* yielding one of Walks and a standard output that is a terminal as in Ttys.
InitMain(Walks, Args, Ttys) ==
  /\ fs \in Walks
  /\ args \in Args
  /\ isatty \in Ttys
  /\ pc = "collect"
  /\ idx = 1
  /\ tags_counter = <<>>
  /\ cats_counter = <<>>
  /\ file_usage = <<>>
  /\ tag_to_files = <<>>
  /\ cat_to_files = <<>>
  /\ out = <<>>
  /\ err = <<>>
  /\ call = NoCall
  /\ ret = NoRet

\* Every walk of at most NFiles files.
Walks == UNION {[1..n -> FileInputs] : n \in 0..NFiles}

\* ---------------------------------------------------------------- collect
\* A mutation of is_draft: drafts are never skipped.
is_draft_never(data, ignore_drafts) == FALSE

\* collect, line 217: ignore_drafts and bool(data.get("draft", False))
is_draft(data, ignore_drafts) ==
  ignore_drafts /\ Truthy(Get(data, "draft", Bool(FALSE)))

\* A mutation of usage_record: a name is kept once.
usage_record_dedup(tags, cats) ==
  [tags |-> SelectSeq([i \in 1..Len(tags) |->
                         IF \E j \in 1..(i - 1) : tags[j] = tags[i]
                           THEN <<>> ELSE tags[i]], LAMBDA s : s # <<>>),
   categories |-> SelectSeq([i \in 1..Len(cats) |->
                         IF \E j \in 1..(i - 1) : cats[j] = cats[i]
                           THEN <<>> ELSE cats[i]], LAMBDA s : s # <<>>)]

\* collect, line 225: the record stored for a file.
usage_record(tags, cats) == [tags |-> tags, categories |-> cats]

\* One iteration of the loop of collect() over paths. A document that is not
\* a mapping has no .get: the AttributeError leaves collect() and main().
collect_file ==
  /\ pc = "collect"
  /\ idx <= Len(fs)
  /\ LET path == idx
         r == read_front_matter(fs[path])
         data == r.data
         tags == coerce_list(Get(data, "tags", Null))
         cats == coerce_list(Get(data, "categories", Null))
     IN  /\ err' = IF r.warn = "" THEN err ELSE Append(err, <<path, r.warn>>)
         /\ IF r.none \/ data = EmptyDict
              THEN /\ idx' = idx + 1
                   /\ UNCHANGED <<pc, collected>>
            ELSE IF data.kind # "map"
              THEN /\ pc' = "crashed"
                   /\ UNCHANGED <<idx, collected>>
            ELSE IF is_draft(data, args.ignore_drafts)
              THEN /\ idx' = idx + 1
                   /\ UNCHANGED <<pc, collected>>
            ELSE /\ tags_counter' = CounterUpdate(tags_counter, tags)
                 /\ cats_counter' = CounterUpdate(cats_counter, cats)
                 /\ file_usage' = (path :> usage_record(tags, cats)) @@ file_usage
                 /\ tag_to_files' = AppendPath(tag_to_files, tags, path)
                 /\ cat_to_files' = AppendPath(cat_to_files, cats, path)
                 /\ idx' = idx + 1
                 /\ UNCHANGED pc
  /\ UNCHANGED <<fs, args, isatty, out, call, ret>>

\* The loop is over: collect() returns to main().
collect_return ==
  /\ pc = "collect"
  /\ idx > Len(fs)
  /\ pc' = "per_file"
  /\ UNCHANGED <<fs, args, isatty, idx, collected, out, err, call, ret>>

\* ------------------------------------------------------------------- main
frame == <<fs, args, isatty, idx, collected, err, call, ret>>

\* main, lines 374-375
main_per_file ==
  /\ pc = "per_file"
  /\ out' = IF args.per_file
              THEN Append(out, Section("per_file", "text", per_file_body(file_usage)))
              ELSE out
  /\ pc' = "summary"
  /\ UNCHANGED frame

\* main, lines 378-382
main_summary ==
  /\ pc = "summary"
  /\ out' = IF args.summary
              THEN out \o
                   <<Section("summary_tags", args.format,
                             sort_and_filter(tags_counter, args.sort,
                                             args.min_count, args.top)),
                     Section("summary_cats", args.format,
                             sort_and_filter(cats_counter, args.sort,
                                             args.min_count, args.top))>>
              ELSE out
  /\ pc' = "singletons"
  /\ UNCHANGED frame

\* main, lines 385-409
main_singletons ==
  /\ pc = "singletons"
  /\ out' = IF args.singletons
              THEN out \o
                   <<Section("singleton_tags", args.format, single_rows(tag_to_files)),
                     Section("singleton_cats", args.format, single_rows(cat_to_files))>>
              ELSE out
  /\ pc' = "by_tag"
  /\ UNCHANGED frame

\* main, lines 416-427
main_by_tag ==
  /\ pc = "by_tag"
  /\ out' = IF args.by_tag
              THEN Append(out,
                     Section("by_tag", args.format,
                             render_mapping(
                               ordered_keys_from(tags_counter, args.sort,
                                                 args.min_count, args.top),
                               tag_to_files)))
              ELSE out
  /\ pc' = "by_cat"
  /\ UNCHANGED frame

\* main, lines 429-440
main_by_cat ==
  /\ pc = "by_cat"
  /\ out' = IF args.by_cat
              THEN Append(out,
                     Section("by_cat", args.format,
                             render_mapping(
                               ordered_keys_from(cats_counter, args.sort,
                                                 args.min_count, args.top),
                               cat_to_files)))
              ELSE out
  /\ pc' = "footer"
  /\ UNCHANGED frame

\* A mutation of main_footer: the remark is printed whatever stdout is.
main_footer_always ==
  /\ pc = "footer"
  /\ out' = IF args.format = "text"
              THEN Append(out, Section("footer", "text", <<>>))
              ELSE out
  /\ pc' = "done"
  /\ UNCHANGED frame

\* main, lines 443-444
main_footer ==
  /\ pc = "footer"
  /\ out' = IF args.format = "text" /\ isatty
              THEN Append(out, Section("footer", "text", <<>>))
              ELSE out
  /\ pc' = "done"
  /\ UNCHANGED frame

Next ==
  \/ collect_file
  \/ collect_return
  \/ main_per_file
  \/ main_summary
  \/ main_singletons
  \/ main_by_tag
  \/ main_by_cat
  \/ main_footer

\* Runs that vary what collect() reads and how the rows are filtered and
\* sorted; every section is on.
Init ==
  InitMain(Walks,
           [ignore_drafts : BOOLEAN, per_file : {TRUE}, summary : {TRUE},
            singletons : {TRUE}, by_tag : {TRUE}, by_cat : {TRUE},
            format : {"text"}, sort : Modes,
            min_count : 0..MaxArg, top : 0..MaxArg],
           {TRUE})

Spec == Init /\ [][Next]_vars

\* Runs that vary which sections are on, the format and the terminal.
WalksOrder == {<<>>, <<M1>>, <<M2, M3>>, <<Unreadable, M3>>, <<M1, ListDoc>>}

InitOrder ==
  InitMain(WalksOrder,
           [ignore_drafts : {FALSE}, per_file : BOOLEAN, summary : BOOLEAN,
            singletons : BOOLEAN, by_tag : BOOLEAN, by_cat : BOOLEAN,
            format : Formats, sort : {"count"},
            min_count : {0}, top : {0}],
           BOOLEAN)

SpecOrder == InitOrder /\ [][Next]_vars

\* ------------------------------------------- the pure functions, directly
\* No run of main(): only a direct call of one function.
NoMain ==
  /\ fs = <<>>
  /\ args = [ignore_drafts |-> FALSE, per_file |-> FALSE, summary |-> TRUE,
             singletons |-> TRUE, by_tag |-> FALSE, by_cat |-> FALSE,
             format |-> "text", sort |-> "count", min_count |-> 0, top |-> 0]
  /\ isatty = FALSE
  /\ pc = "idle"
  /\ idx = 1
  /\ tags_counter = <<>>
  /\ cats_counter = <<>>
  /\ file_usage = <<>>
  /\ tag_to_files = <<>>
  /\ cat_to_files = <<>>
  /\ out = <<>>
  /\ err = <<>>

main_vars ==
  <<fs, args, isatty, pc, idx, collected, out, err>>

\* Every sequence of at most n elements of S.
SeqsUpTo(S, n) == UNION {[1..k -> S] : k \in 0..n}

\* The strings given to coerce_list: empty, blank, padded, in mixed case.
RawStrings ==
  {<<>>, sp_, <<" ", " ">>, g_o, G_o, go_sp, <<" ", "G", "O">>,
   <<" ", "g", " ", "O", " ">>, R_}

\* The elements of the lists given to coerce_list.
ListElems ==
  {Str(s) : s \in {<<>>, sp_, g_o, go_sp, <<" ", "G", "O">>, R_}}
    \cup {Null, Num(7), Bool(TRUE), List(<<Str(g_o)>>)}

\* The values given to coerce_list.
CoerceValues ==
  {Null, Num(0), Num(5), Bool(TRUE), Bool(FALSE), MapOf(0), MapOf(1)}
    \cup {Str(s) : s \in RawStrings}
    \cup {List(l) : l \in SeqsUpTo(ListElems, MaxLen)}

InitCoerce ==
  /\ NoMain
  /\ call \in {[fn |-> "coerce_list", pc |-> "call", value |-> v] :
                 v \in CoerceValues}
  /\ ret = NoRet

\* first = coerce_list(value)
coerce_call ==
  /\ call.fn = "coerce_list"
  /\ call.pc = "call"
  /\ ret' = [fn |-> "coerce_list", first |-> coerce_list(call.value),
             again |-> <<>>]
  /\ call' = [call EXCEPT !.pc = "again"]
  /\ UNCHANGED main_vars

\* again = coerce_list(first)
coerce_again ==
  /\ call.fn = "coerce_list"
  /\ call.pc = "again"
  /\ ret' = [ret EXCEPT !.again = coerce_list(AsValue(ret.first))]
  /\ call' = [call EXCEPT !.pc = "done"]
  /\ UNCHANGED main_vars

NextCoerce == coerce_call \/ coerce_again

SpecCoerce == InitCoerce /\ [][NextCoerce]_vars

\* The names of the count mappings given to sort_and_filter.
SortNames == {g_o, <<"g">>, G_o, r_}

\* The count mappings given to sort_and_filter.
Counters ==
  UNION {[S -> 0..MaxCount] : S \in SUBSET SortNames}

InitSort ==
  /\ NoMain
  /\ call \in {[fn |-> "sort_and_filter", pc |-> "call", counter |-> c,
                mode |-> m, min_count |-> mc, top |-> tp] :
                 c \in Counters, m \in Modes,
                 mc \in (-1)..(MaxCount + 1), tp \in (-1)..(MaxCount + 1)}
  /\ ret = NoRet

\* rows = sort_and_filter(counter, mode, min_count, top)
sort_call ==
  /\ call.fn = "sort_and_filter"
  /\ call.pc = "call"
  /\ ret' = [fn |-> "sort_and_filter",
             rows |-> sort_and_filter(call.counter, call.mode,
                                      call.min_count, call.top)]
  /\ call' = [call EXCEPT !.pc = "done"]
  /\ UNCHANGED main_vars

NextSort == sort_call

SpecSort == InitSort /\ [][NextSort]_vars

\* ------------------------------------------------- what the claims speak of
\* The number of times name occurs in list.
Occ(name, list) == Cardinality({i \in 1..Len(list) : list[i] = name})

\* The file is aggregated: it was read and parsed, has a metadata mapping
\* and is not a draft being ignored.
Aggregated(file) ==
  LET r == read_front_matter(file)
  IN  /\ ~r.none
      /\ r.data # EmptyDict
      /\ r.data.kind = "map"
      /\ ~(args.ignore_drafts /\ Truthy(Get(r.data, "draft", Bool(FALSE))))

\* The normalized tag (category) list of a file.
NormList(file, field) == coerce_list(Get(read_front_matter(file).data, field, Null))

\* Per path of the walk, the normalized list of the field that the file
\* contributes: its own when the file is aggregated, none when it is not.
Contribution(field) ==
  [i \in 1..Len(fs) |->
     IF Aggregated(fs[i]) THEN NormList(fs[i], field) ELSE <<>>]

\* The names of the lists of a contribution.
NamesOf(contrib) ==
  UNION {{contrib[i][j] : j \in 1..Len(contrib[i])} : i \in 1..Len(contrib)}

\* The occurrences of name in the lists of the first n paths.
Total(contrib, name, n) ==
  Cardinality(UNION {{<<i, j>> : j \in {j \in 1..Len(contrib[i]) :
                                           contrib[i][j] = name}} :
                       i \in 1..n})

\* The paths among the first n whose list holds name.
Users(contrib, name, n) ==
  {i \in 1..n : \E j \in 1..Len(contrib[i]) : contrib[i][j] = name}

Count(counter, name) == IF name \in DOMAIN counter THEN counter[name] ELSE 0

\* C1: whenever collect() has processed the first idx-1 files, each counter
\* holds, for every name, the number of occurrences of the name in the
\* normalized lists of the aggregated files among them (duplicates within a
\* file each count), and holds no name that occurs in none.
CounterIsSumOfOccurrences ==
  LET tags == Contribution("tags")
      cats == Contribution("categories")
  IN  /\ \A name \in NamesOf(tags) \cup DOMAIN tags_counter :
           /\ Count(tags_counter, name) = Total(tags, name, idx - 1)
           /\ name \in DOMAIN tags_counter <=> Total(tags, name, idx - 1) > 0
      /\ \A name \in NamesOf(cats) \cup DOMAIN cats_counter :
           /\ Count(cats_counter, name) = Total(cats, name, idx - 1)
           /\ name \in DOMAIN cats_counter <=> Total(cats, name, idx - 1) > 0

\* collect() has returned after two aggregated files, one of which lists a
\* tag twice: go counts 3, b counts 2.
CounterSumWitness ==
  /\ pc = "per_file"
  /\ Count(tags_counter, g_o) = 3
  /\ Count(tags_counter, r_) = 1
  /\ Count(cats_counter, b_) = 2

\* C2: no file aborts the run: collect() never leaves through an exception.
NoFileAbortsRun == pc # "crashed"

\* C9: at every point of the loop and after it, a counter and its inverse
\* mapping hold the same names, each with a non-empty list of files.
CounterAndInverseSameNames ==
  /\ DOMAIN tags_counter = {k \in DOMAIN tag_to_files : tag_to_files[k] # <<>>}
  /\ DOMAIN cats_counter = {k \in DOMAIN cat_to_files : cat_to_files[k] # <<>>}
  /\ DOMAIN tags_counter = DOMAIN tag_to_files
  /\ DOMAIN cats_counter = DOMAIN cat_to_files

\* In the middle of the loop, after a file with tags and categories.
SameNamesWitness ==
  /\ pc = "collect"
  /\ idx = 2
  /\ Len(fs) = 2
  /\ Cardinality(DOMAIN tags_counter) = 2
  /\ DOMAIN cats_counter = {b_}

\* C10 as stated: in a stored usage record each name occurs at most once.
UsageRecordHasNoDuplicates ==
  \A p \in DOMAIN file_usage :
    /\ \A j, k \in 1..Len(file_usage[p].tags) :
         file_usage[p].tags[j] = file_usage[p].tags[k] => j = k
    /\ \A j, k \in 1..Len(file_usage[p].categories) :
         file_usage[p].categories[j] = file_usage[p].categories[k] => j = k

\* C10 amended: the stored usage record of a file is its normalized lists
\* as they are: a name occurs in the record as often as in the normalized
\* list, duplicates included, and in the same order.
UsageRecordKeepsNormalizedLists ==
  \A p \in DOMAIN file_usage :
    /\ p < idx
    /\ Aggregated(fs[p])
    /\ file_usage[p].tags = NormList(fs[p], "tags")
    /\ file_usage[p].categories = NormList(fs[p], "categories")

\* A record that holds go twice, from raw tags Go and "go ".
UsageRecordDuplicateWitness ==
  \E p \in DOMAIN file_usage : Occ(g_o, file_usage[p].tags) = 2

\* The file is one the loop skips, in the words of the frame claim: it is
\* unreadable, has no metadata block, has a block that fails to parse, or is
\* a draft while drafts are ignored.
HasBlock(file) ==
  /\ Len(file.lines) >= 2
  /\ file.lines[1] = "---"
  /\ \E j \in 2..Len(file.lines) : file.lines[j] = "---"

SkippedFile(file) ==
  \/ ~file.readable
  \/ ~HasBlock(file)
  \/ ~file.load.ok
  \/ /\ args.ignore_drafts
     /\ file.load.data.kind = "map"
     /\ file.load.data.draft.kind = "bool"
     /\ file.load.data.draft.n = 1

\* The path is in no structure collect() builds.
PathAbsent(p) ==
  /\ p \notin DOMAIN file_usage
  /\ \A k \in DOMAIN tag_to_files :
       \A j \in 1..Len(tag_to_files[k]) : tag_to_files[k][j] # p
  /\ \A k \in DOMAIN cat_to_files :
       \A j \in 1..Len(cat_to_files[k]) : cat_to_files[k][j] # p

\* C6: the iteration of the loop on a skipped file leaves both counters, the
\* usage records and both inverse mappings as they were and goes on to the
\* next file, and the path of a skipped file is in none of them, then and
\* later.
SkippedFileChangesNothing ==
  /\ [][(pc = "collect" /\ idx <= Len(fs) /\ SkippedFile(fs[idx]))
          => (UNCHANGED collected /\ pc' = "collect" /\ idx' = idx + 1)]_vars
  /\ [](\A p \in 1..(idx - 1) : SkippedFile(fs[p]) => PathAbsent(p))

\* The loop has aggregated a file and then skipped a draft.
SkippedDraftWitness ==
  /\ idx = 3
  /\ args.ignore_drafts
  /\ fs[1] = M1
  /\ fs[2] = M2
  /\ DOMAIN file_usage = {1}

\* The names of a list of rows (name, count).
RowNames(rows) == [i \in 1..Len(rows) |-> rows[i][1]]

\* The keys of a rendered mapping.
ViewKeys(body) == [i \in 1..Len(body) |-> body[i].key]

Printed(name) == {i \in 1..Len(out) : out[i].section = name}

\* C3 as stated: a name is in the singleton list iff exactly one aggregated
\* file has it in its normalized list, however often that file lists it.
SingletonIffUsedByOneFile ==
  /\ \A i \in Printed("singleton_tags") :
       LET tags == Contribution("tags")
       IN  \A name \in NamesOf(tags) \cup DOMAIN tag_to_files :
             (\E j \in 1..Len(out[i].body) : out[i].body[j][1] = name)
               <=> Cardinality(Users(tags, name, Len(fs))) = 1
  /\ \A i \in Printed("singleton_cats") :
       LET cats == Contribution("categories")
       IN  \A name \in NamesOf(cats) \cup DOMAIN cat_to_files :
             (\E j \in 1..Len(out[i].body) : out[i].body[j][1] = name)
               <=> Cardinality(Users(cats, name, Len(fs))) = 1

\* The rows are (name, 1), by ascending name, of exactly the names that
\* occur once in all in the field of the aggregated files.
IsSingletonList(body, field) ==
  /\ LET contrib == Contribution(field)
     IN  \A name \in NamesOf(contrib) \cup {body[j][1] : j \in 1..Len(body)} :
           (\E j \in 1..Len(body) : body[j][1] = name)
             <=> Total(contrib, name, Len(fs)) = 1
  /\ \A j \in 1..Len(body) : body[j][2] = 1
  /\ \A j, k \in 1..Len(body) : j < k => StrLess(body[j][1], body[k][1])

\* C3 amended: a name is in the singleton list iff it occurs exactly once in
\* all in the normalized lists of the aggregated files (one file uses it,
\* and lists it once); this for every min-count and top, and the list is in
\* ascending order of name.
SingletonIffOneOccurrence ==
  /\ \A i \in Printed("singleton_tags") : IsSingletonList(out[i].body, "tags")
  /\ \A i \in Printed("singleton_cats") : IsSingletonList(out[i].body, "categories")

\* Under min-count 2 and top 1, the singleton list is printed for a walk in
\* which one file alone uses go, twice, and r once: r is listed, go is not.
SingletonWitness ==
  /\ args.min_count = 2
  /\ args.top = 1
  /\ \E i \in Printed("singleton_tags") : RowNames(out[i].body) = <<r_>>
  /\ Cardinality(Users(Contribution("tags"), g_o, Len(fs))) = 1
  /\ Total(Contribution("tags"), g_o, Len(fs)) = 2

\* a comes before b in the order of the mode: by descending count then
\* ascending name, or by ascending name alone.
Before(counter, mode, a, b) ==
  IF mode = "alpha" THEN StrLess(a, b)
  ELSE counter[a] > counter[b] \/ (counter[a] = counter[b] /\ StrLess(a, b))

\* keys are the names of counter with count >= min_count, each at the place
\* its rank in the order of the mode gives it, cut to the first top names
\* when top > 0.
KeysAreFilteredSorted(keys, counter, mode, min_count, top) ==
  LET kept == {k \in DOMAIN counter : counter[k] >= min_count}
      rank(k) == Cardinality({j \in kept : Before(counter, mode, j, k)})
      n == IF top > 0 /\ top < Cardinality(kept) THEN top ELSE Cardinality(kept)
  IN  /\ Len(keys) = n
      /\ \A i \in 1..n : keys[i] \in kept /\ rank(keys[i]) = i - 1

\* C5: the keys of a printed mapping view are, in order, the names of the
\* rows of the summary table of its counter (the names with count >=
\* min-count, in the order of the sort mode, cut to top), never the keys of
\* the inverse mapping as such.
MappingViewFollowsCounter ==
  /\ \A i \in Printed("by_tag") :
       /\ KeysAreFilteredSorted(ViewKeys(out[i].body), tags_counter,
                                args.sort, args.min_count, args.top)
       /\ \A j \in Printed("summary_tags") :
            ViewKeys(out[i].body) = RowNames(out[j].body)
  /\ \A i \in Printed("by_cat") :
       /\ KeysAreFilteredSorted(ViewKeys(out[i].body), cats_counter,
                                args.sort, args.min_count, args.top)
       /\ \A j \in Printed("summary_cats") :
            ViewKeys(out[i].body) = RowNames(out[j].body)

\* The tag view shows two of the three names the inverse mapping holds.
MappingViewWitness ==
  /\ pc = "done"
  /\ args.top = 2
  /\ Cardinality(DOMAIN tag_to_files) = 3
  /\ \E i \in Printed("by_tag") : Len(out[i].body) = 2
  /\ Printed("summary_tags") # {}

\* The sections in the order main() prints them.
SectionOrder ==
  <<"per_file", "summary_tags", "summary_cats", "singleton_tags",
    "singleton_cats", "by_tag", "by_cat", "footer">>

\* The section is asked for by the command line (the closing remark: by the
\* text format on a terminal).
Enabled(name) ==
  CASE name = "per_file" -> args.per_file
    [] name \in {"summary_tags", "summary_cats"} -> args.summary
    [] name \in {"singleton_tags", "singleton_cats"} -> args.singletons
    [] name = "by_tag" -> args.by_tag
    [] name = "by_cat" -> args.by_cat
    [] name = "footer" -> args.format = "text" /\ isatty

SectionNames == [i \in 1..Len(out) |-> out[i].section]

IsPrefix(a, b) == Len(a) <= Len(b) /\ a = SubSeq(b, 1, Len(a))

\* C7: what main() has printed is at every moment a prefix of the enabled
\* sections taken in the fixed order, and all of them once main() is done:
\* a disabled section prints nothing, and the closing remark comes last and
\* only in text format on a terminal. The per-file listing is always text.
SectionsInFixedOrder ==
  LET expected == SelectSeq(SectionOrder, Enabled)
  IN  /\ IsPrefix(SectionNames, expected)
      /\ pc = "done" => SectionNames = expected
      /\ \A i \in 1..Len(out) :
           out[i].fmt = (IF out[i].section \in {"per_file", "footer"}
                           THEN "text" ELSE args.format)

\* main() is done on a terminal in text format with the summary and the
\* category view off: the per-file listing, the singleton lists, the tag
\* view, and the remark last.
SectionsWitness ==
  /\ pc = "done"
  /\ isatty
  /\ args.format = "text"
  /\ SectionNames = <<"per_file", "singleton_tags", "singleton_cats",
                      "by_tag", "footer">>
  /\ fs = <<M2, M3>>

\* s is the name between blanks, up to the case of its letters, and the
\* name is lowercase, not blank at either end and not empty.
CasePairs == {<<"B", "b">>, <<"G", "g">>, <<"O", "o">>, <<"R", "r">>}

IsNormalOf(name, s) ==
  /\ name # <<>>
  /\ name[1] # " "
  /\ name[Len(name)] # " "
  /\ \A i \in 1..Len(name) : \A cp \in CasePairs : name[i] # cp[1]
  /\ \E a \in 0..Len(s) :
       /\ a + Len(name) <= Len(s)
       /\ \A i \in 1..Len(s) :
            IF i <= a \/ i > a + Len(name) THEN s[i] = " "
            ELSE s[i] = name[i - a] \/ <<s[i], name[i - a]>> \in CasePairs

Blank(s) == \A i \in 1..Len(s) : s[i] = " "

\* The other case of a letter.
SwapCase(c) ==
  IF \E cp \in CasePairs : cp[1] = c
    THEN (CHOOSE cp \in CasePairs : cp[1] = c)[2]
  ELSE IF \E cp \in CasePairs : cp[2] = c
    THEN (CHOOSE cp \in CasePairs : cp[2] = c)[1]
  ELSE c

\* Strings that differ from s only in the case of the letters and in blanks
\* around it.
Variants(s) ==
  LET core == strip(s)
  IN  {l \o w \o r : l \in {<<>>, sp_}, r \in {<<>>, sp_},
                     w \in {core, [i \in 1..Len(core) |-> SwapCase(core[i])]}}

\* C8: coerce_list of a string is its lowercase trimmed name, or nothing
\* when it is empty or blank, the same for every spelling that differs only
\* in case or in blanks around; of a list, the names of its strings that are
\* not blank, in order; of any other value, the empty list; and coerce_list
\* of the result is the result.
CoerceListNormalizes ==
  /\ call.pc \in {"again", "done"} =>
       LET v == call.value
           kept == SelectSeq(v.items, LAMBDA e : e.kind = "str" /\ ~Blank(e.s))
       IN  /\ v.kind \notin {"str", "list"} => ret.first = <<>>
           /\ v.kind = "str" /\ Blank(v.s) => ret.first = <<>>
           /\ v.kind = "str" /\ ~Blank(v.s) =>
                /\ Len(ret.first) = 1
                /\ IsNormalOf(ret.first[1], v.s)
                /\ \A t \in Variants(v.s) : coerce_list(Str(t)) = ret.first
           /\ v.kind = "list" =>
                /\ Len(ret.first) = Len(kept)
                /\ \A i \in 1..Len(kept) : IsNormalOf(ret.first[i], kept[i].s)
  /\ call.pc = "done" => ret.again = ret.first

\* Both calls are made on a list of two strings that differ in case and in
\* the blanks around them: the result is go, go, and so is its coerce_list.
CoerceWitness ==
  /\ call.pc = "done"
  /\ call.value = List(<<Str(<<" ", "G", "O">>), Str(go_sp)>>)
  /\ ret.first = <<g_o, g_o>>
  /\ ret.again = <<g_o, g_o>>

\* C4: sort_and_filter returns the rows (name, count) of exactly the names
\* with count >= min_count, by descending count then ascending name in
\* count mode and by ascending name in alpha mode, cut to the first top
\* rows when top > 0 and whole when top is 0.
SortAndFilterExact ==
  call.pc = "done" =>
    /\ KeysAreFilteredSorted(RowNames(ret.rows), call.counter, call.mode,
                             call.min_count, call.top)
    /\ \A i \in 1..Len(ret.rows) :
         ret.rows[i] = <<ret.rows[i][1], call.counter[ret.rows[i][1]]>>
    /\ call.top = 0 =>
         Len(ret.rows) = Cardinality({k \in DOMAIN call.counter :
                                        call.counter[k] >= call.min_count})

\* Count mode, min-count 1, top 2, on four names of which one is below the
\* threshold and two tie on the count: the tie is broken by name.
SortWitness ==
  /\ call.pc = "done"
  /\ call.mode = "count"
  /\ call.min_count = 1
  /\ call.top = 2
  /\ DOMAIN call.counter = SortNames
  /\ call.counter[r_] = 0
  /\ ret.rows = <<<<G_o, 2>>, <<g_o, 2>>>>

====
